---- MODULE Spec2Model ----
(***************************************************************************)
(* Revenue dashboard: the revenue route (GET /api/revenue) with its        *)
(* helpers getStripeRevenue, fetchAllTransactionsImproved and              *)
(* combineRecentRevenueData, the geographical route, and the components    *)
(* RevenueDashboard and CountUp.                                           *)
(*                                                                         *)
(* Specifications: Spec (one GET request), SpecAgg (getStripeRevenue on a  *)
(* fetched batch), SpecFetch (the paginated fetch, then the aggregation),  *)
(* SpecDash (the dashboard's fetches and what it renders), SpecGeo (one    *)
(* GET /api/geographical request) and SpecCount (the CountUp component);   *)
(* SpecFetchFair and SpecDashFair add the fairness the code provides.      *)
(*                                                                         *)
(* Representation.                                                         *)
(*  - A timestamp is a whole number of hours since 2025-06-01T00:00Z (the  *)
(*    code counts seconds; nothing below depends on a finer grain than the *)
(*    hour, the grain of the reporting timezone's offset).                 *)
(*  - A date string "YYYY-MM-DD" is the number of days since 2025-06-01.   *)
(*    The strings are fixed-width and zero-padded, so the code's string    *)
(*    comparisons (sort, localeCompare, ===) are the integer ones.         *)
(*  - A money amount in major units is held in hundredths of a major unit, *)
(*    so 15.00 is 1500. Sums are exact decimals; the rounding of IEEE      *)
(*    doubles is not modelled.                                             *)
(***************************************************************************)
EXTENDS Integers, Sequences, FiniteSets, TLC

\* ------------------------------------------------------------------ bounds
\* Ledger rows and transactions are dated on days 0..MaxDay.
MaxDay == 2
\* A fetch returns at most MaxBatch transactions.
MaxBatch == 2
\* A page of the list call holds at most MaxPageLen transactions (limit: 100).
MaxPageLen == 2
\* fetchAllTransactionsImproved(..., maxPages = 20): scaled down.
maxPages == 3
\* The dashboard is followed over its first MaxFetches calls of fetchRevenueData.
MaxFetches == 3
\* getGeographicalRevenue: const maxPages = 10, scaled down.
maxChargePages == 2
\* CountUp: duration = 1500 (ms), in ticks of the frame clock.
duration == 4
\* The frame clock is followed up to MaxTimestamp, a frame comes at most
\* MaxFrameStep ticks after the one before, and CountUp is rendered at most
\* MaxRenders times.
MaxTimestamp == 8
MaxFrameStep == 2
MaxRenders == 3

\* --------------------------------------------------------------- constants
HoursPerDay == 24
\* America/Los_Angeles in June: UTC-7.
PacificOffset == 7
\* Date.parse of the fallback "2025-06-01": day 0 of the model's calendar.
FallbackLastDate == 0
\* The encoding of a timestamp whose Date is invalid (getTime() is NaN).
NaN == -1
\* let lastId: string | undefined, before it is assigned.
NoId == 0

VARIABLES
    pc,                        \* position of the GET handler
    csvReadable,               \* whether readFileSync and parse succeed
    now,                       \* the clock (Date.now(), new Date()), in hours
    records,                   \* the parsed CSV records
    historicalData,            \* GET: historicalData
    recentDataStartTimestamp,  \* GET: recentDataStartTimestamp
    fetched,                   \* per account, what getStripeRevenue returned
    fetchFailed,               \* the accounts whose getStripeRevenue threw
    interviewCoderRevenue,     \* GET: interviewCoderRevenue, after the filter
    cluelyRevenue,             \* GET: cluelyRevenue, after the filter
    response,                  \* the NextResponse of the request
    transactions,              \* getStripeRevenue: the fetched transactions
    dailyRevenue,              \* getStripeRevenue: the returned array
    allTransactions,           \* fetchAllTransactionsImproved: allTransactions
    hasMore,                   \* fetchAllTransactionsImproved: hasMore
    lastId,                    \* fetchAllTransactionsImproved: lastId
    pageCount,                 \* fetchAllTransactionsImproved: pageCount
    pageLog,                   \* the page requests made, with what came back
    revenueData,               \* RevenueDashboard: useState(null)
    geographicalData,          \* RevenueDashboard: useState(null)
    initialLoading,            \* RevenueDashboard: useState(true)
    refreshing,                \* RevenueDashboard: useState(false)
    error,                     \* RevenueDashboard: useState(null)
    prevTotal,                 \* RevenueDashboard: useState(0)
    prevCluelyTotal,           \* RevenueDashboard: useState(0)
    prevInterviewCoderTotal,   \* RevenueDashboard: useState(0)
    inFlight,                  \* the calls of fetchRevenueData awaiting Promise.all
    fetchCount,                \* the calls of fetchRevenueData made so far
    lastLoaded,                \* the payload of the last revenue response stored
    lastOutcome,               \* how the two requests of the last settled fetch ended
    keysSet,                   \* geographical GET: both API keys are in process.env
    chargeFetch,               \* per account, the locals of getGeographicalRevenue
    geoData,                   \* per account, what getGeographicalRevenue returned
    props,                     \* CountUp: the props value and prevValue of the last render
    displayValue,              \* CountUp: the state displayValue
    startTimeRef,              \* CountUp: startTimeRef.current (0: null)
    animationFrameRef,         \* CountUp: animationFrameRef.current (0: null, 1: a request id)
    frameRequested,            \* CountUp: a requested animation frame is pending
    frameTime,                 \* the timestamp of the last animation frame
    framesRun,                 \* frames run by the animation of the last effect
    elapsedSeen,               \* elapsed, as computed by the last frame
    renders                    \* renders of CountUp so far

getVars == <<pc, csvReadable, now, records, historicalData, recentDataStartTimestamp, fetched,
             fetchFailed, interviewCoderRevenue, cluelyRevenue, response>>
aggVars == <<transactions, dailyRevenue>>
fetchVars == <<allTransactions, hasMore, lastId, pageCount, pageLog>>
dashVars == <<revenueData, geographicalData, initialLoading, refreshing, error, prevTotal,
              prevCluelyTotal, prevInterviewCoderTotal, inFlight, fetchCount, lastLoaded,
              lastOutcome>>
geoVars == <<keysSet, chargeFetch, geoData>>
countVars == <<props, displayValue, startTimeRef, animationFrameRef, frameRequested, frameTime,
               framesRun, elapsedSeen, renders>>
vars == <<getVars, aggVars, fetchVars, dashVars, geoVars, countVars>>

\* ----------------------------------------------------------------- helpers
Max(S) == CHOOSE m \in S : \A k \in S : k <= m

RECURSIVE SumSeq(_)
SumSeq(s) == IF s = <<>> THEN 0 ELSE Head(s) + SumSeq(Tail(s))

\* Array.from(set).sort(): the elements of a set of dates in ascending order.
RECURSIVE SortDates(_)
SortDates(S) ==
    IF S = {} THEN <<>>
    ELSE LET m == CHOOSE x \in S : \A y \in S : x <= y
         IN <<m>> \o SortDates(S \ {m})

Dates(entries) == {entries[i].date : i \in DOMAIN entries}

\* ------------------------------------------------------ Timezone conversion
\* The UTC calendar day of a timestamp: toISOString().slice(0, 10).
UtcDate(timestamp) == timestamp \div HoursPerDay

\* Intl.DateTimeFormat with timeZone America/Los_Angeles, rebuilt as
\* YYYY-MM-DD; an invalid Date falls back to today's UTC date.
convertToPacificTime(timestamp) ==
    IF timestamp = NaN
    THEN UtcDate(now)
    ELSE (timestamp - PacificOffset) \div HoursPerDay

\* new Date("YYYY-MM-DD"): midnight UTC of that day.
DateParse(date) == date * HoursPerDay

\* -------------------------------------------------------- getStripeRevenue
\* dailyRevenueMap is a Map<string, number>: its entries are held in
\* insertion order, as Array.from(map.entries()) returns them.
MapHas(map, date) == \E i \in DOMAIN map : map[i].date = date

\* dailyRevenueMap.get(date) || 0
MapGetOrZero(map, date) ==
    IF MapHas(map, date)
    THEN map[CHOOSE i \in DOMAIN map : map[i].date = date].amount
    ELSE 0

\* dailyRevenueMap.set(date, value): an existing key keeps its position.
MapSet(map, date, value) ==
    IF MapHas(map, date)
    THEN [i \in DOMAIN map |->
             IF map[i].date = date THEN [date |-> date, amount |-> value] ELSE map[i]]
    ELSE Append(map, [date |-> date, amount |-> value])

\* The condition of the if in the loop over the transactions.
IsIncluded(transaction) ==
    /\ transaction.amount > 0
    /\ transaction.type \in {"charge", "payment"}

\* The timestamp the day of a transaction is taken from.
RevenueTimestamp(transaction) == transaction.created

\* Faulty variant: every currency is divided by 100.
ConvertAmountAlwaysDivides(transaction) == (transaction.amount * 100) \div 100

\* transaction.amount / (jpy or krw ? 1 : 100), in hundredths of a major unit.
ConvertAmount(transaction) ==
    (transaction.amount * 100) \div
        (IF transaction.currency = "jpy" \/ transaction.currency = "krw" THEN 1 ELSE 100)

\* Faulty variant: the day's amount is overwritten, not added to.
AddToDayOverwrites(map, date, amount) == MapSet(map, date, amount)

\* dailyRevenueMap.set(date, (dailyRevenueMap.get(date) || 0) + amount)
AddToDay(map, date, amount) == MapSet(map, date, MapGetOrZero(map, date) + amount)

\* for (const transaction of transactions) { ... }, from the map `map` on.
RECURSIVE ProcessTransactions(_, _)
ProcessTransactions(txs, map) ==
    IF txs = <<>> THEN map
    ELSE LET transaction == Head(txs)
             next == IF IsIncluded(transaction)
                     THEN AddToDay(map,
                                   convertToPacificTime(RevenueTimestamp(transaction)),
                                   ConvertAmount(transaction))
                     ELSE map
         IN ProcessTransactions(Tail(txs), next)

\* dailyRevenue.sort((a, b) => a.date.localeCompare(b.date)): a stable sort.
RECURSIVE InsertByDate(_, _)
InsertByDate(sorted, entry) ==
    IF sorted = <<>> THEN <<entry>>
    ELSE IF entry.date < Head(sorted).date
         THEN <<entry>> \o sorted
         ELSE <<Head(sorted)>> \o InsertByDate(Tail(sorted), entry)

RECURSIVE SortByDateFrom(_, _)
SortByDateFrom(entries, sorted) ==
    IF entries = <<>> THEN sorted
    ELSE SortByDateFrom(Tail(entries), InsertByDate(sorted, Head(entries)))

SortByDate(entries) == SortByDateFrom(entries, <<>>)

\* The array getStripeRevenue returns for the fetched transactions.
getStripeRevenue(txs) == SortByDate(ProcessTransactions(txs, <<>>))

\* ------------------------------------------------ combineRecentRevenueData
\* new Map(revenue.map((entry) => [entry.date, entry])).get(date): the last
\* entry of that date, or undefined.
EntryAmount(revenue, date) ==
    LET at == {i \in DOMAIN revenue : revenue[i].date = date}
    IN IF at = {} THEN 0 ELSE revenue[Max(at)].amount

\* Faulty variant: the day's total is not added to the running total.
NextTotalCumulativeStale(totalCumulative, totalDaily) == totalCumulative

\* totalCumulative += totalDailyRevenue
NextTotalCumulative(totalCumulative, totalDaily) == totalCumulative + totalDaily

\* Faulty variant: the running cumulative is replaced by the day's amount.
NextCumulativeForgets(cumulative, amount) == amount

\* interviewCoderCumulative += interviewCoderAmount (and the same for cluely)
NextCumulative(cumulative, amount) == cumulative + amount

\* for (const date of sortedDates) { ... combinedData.push(...) }
RECURSIVE CombineLoop(_, _, _, _, _, _)
CombineLoop(sortedDates, icRevenue, clRevenue, icCumulative, clCumulative, totalCumulative) ==
    IF sortedDates = <<>> THEN <<>>
    ELSE LET date == Head(sortedDates)
             interviewCoderAmount == EntryAmount(icRevenue, date)
             cluelyAmount == EntryAmount(clRevenue, date)
             ic == NextCumulative(icCumulative, interviewCoderAmount)
             cl == NextCumulative(clCumulative, cluelyAmount)
             totalDailyRevenue == interviewCoderAmount + cluelyAmount
             total == NextTotalCumulative(totalCumulative, totalDailyRevenue)
         IN <<[date |-> date,
               amount_interview_coder |-> interviewCoderAmount,
               cumulative_amount_interview_coder |-> ic,
               amount_cluely |-> cluelyAmount,
               cumulative_amount_cluely |-> cl,
               total_daily_revenue |-> totalDailyRevenue,
               total_cumulative_revenue |-> total]>>
            \o CombineLoop(Tail(sortedDates), icRevenue, clRevenue, ic, cl, total)

\* Faulty variant: only the days of the first account are gone through.
combineRecentRevenueDataOneAccount(icRevenue, clRevenue, lastIc, lastCl, lastTotal) ==
    CombineLoop(SortDates(Dates(icRevenue)),
                icRevenue, clRevenue, lastIc, lastCl, lastTotal)

\* allDates, sortedDates and the loop over them.
combineRecentRevenueData(icRevenue, clRevenue, lastIc, lastCl, lastTotal) ==
    CombineLoop(SortDates(Dates(icRevenue) \cup Dates(clRevenue)),
                icRevenue, clRevenue, lastIc, lastCl, lastTotal)

\* ------------------------------------------------------------ the inputs
Days == 0..MaxDay

\* The hours of a day at which the sampled transactions are created: one
\* before and one after the Pacific midnight (07:00Z).
SampleHours == {2, 15}
Timestamps == {d * HoursPerDay + h : d \in 1..MaxDay, h \in SampleHours}

Accounts == {"interview_coder", "cluely"}

\* The daily amounts of a row of the CSV file, per account.
HistoricalDaily == [interview_coder |-> 70000, cluely |-> 30000]

\* What total_cumulative_revenue of a CSV file exceeds the sum of the two
\* accounts' cumulatives by (the file is written by hand; see also
\* REVENUE_ADJUSTMENT_AMOUNT).
TotalOffsets == {0, 12300}

\* The rows of a CSV file whose dates are `dates` (ascending), after the rows
\* summing up to icCumulative and clCumulative.
RECURSIVE CsvRows(_, _, _, _)
CsvRows(dates, icCumulative, clCumulative, offset) ==
    IF dates = <<>> THEN <<>>
    ELSE LET ic == icCumulative + HistoricalDaily.interview_coder
             cl == clCumulative + HistoricalDaily.cluely
         IN <<[date |-> Head(dates),
               daily_revenue_interview_coder |-> HistoricalDaily.interview_coder,
               cumulative_revenue_interview_coder |-> ic,
               daily_revenue_cluely |-> HistoricalDaily.cluely,
               cumulative_revenue_cluely |-> cl,
               total_daily_revenue |->
                   HistoricalDaily.interview_coder + HistoricalDaily.cluely,
               total_cumulative_revenue |-> ic + cl + offset]>>
            \o CsvRows(Tail(dates), ic, cl, offset)

\* The CSV files: one row per day of any set of days (gaps allowed), sorted.
CsvFiles == {CsvRows(SortDates(S), 0, 0, k) : S \in SUBSET Days, k \in TotalOffsets}

\* The amount (minor units) of the charges of each account in the request model.
ChargeAmount == [interview_coder |-> 1000, cluely |-> 250]

Charge(account, created) ==
    [type |-> "charge", reporting_category |-> "charge",
     amount |-> ChargeAmount[account], currency |-> "usd",
     created |-> created, available_on |-> created]

Batches(T) == UNION {[1..n -> T] : n \in 0..MaxBatch}

\* What the list call may return for an account. The remote API applies the
\* created.gte filter; the code does not check the transactions it gets back.
ChargeBatches(account) == Batches({Charge(account, t) : t \in Timestamps})

\* The clock of a request: before the Pacific midnight of day 1 (when the UTC
\* date is already a day ahead of the Pacific one), or in the middle of the
\* last day.
NowTimes == {DateParse(1) + 2, DateParse(MaxDay) + 15}

\* The transactions of the aggregation model: each kind of transaction with
\* either sign, either kind of currency, created before or after the Pacific
\* midnight of day 1 and available at once or three days later.
Kinds == {<<"charge", "charge">>, <<"payment", "charge">>, <<"refund", "refund">>}
AvailabilityDelays == {0, 3 * HoursPerDay}
WellFormedTransactions ==
    {[type |-> k[1], reporting_category |-> k[2], amount |-> a, currency |-> c,
      created |-> DateParse(1) + h, available_on |-> DateParse(1) + h + w] :
        k \in Kinds, a \in {1500, 0 - 500}, c \in {"usd", "jpy"},
        h \in SampleHours, w \in AvailabilityDelays}

\* A charge without a usable created timestamp (new Date(undefined * 1000) is
\* an invalid Date) and a charge whose currency is not a currency code.
MalformedTransactions ==
    {[type |-> "charge", reporting_category |-> "charge", amount |-> 1500,
      currency |-> "usd", created |-> NaN, available_on |-> DateParse(1) + 15],
     [type |-> "charge", reporting_category |-> "charge", amount |-> 1500,
      currency |-> "", created |-> DateParse(1) + 15, available_on |-> DateParse(1) + 15]}

Transactions == WellFormedTransactions \cup MalformedTransactions

\* ------------------------------------------------------------ GET /revenue
\* records.map((record) => ({ ... })): a CSV record as a row of the series.
HistoricalEntry(record) ==
    [date |-> record.date,
     amount_interview_coder |-> record.daily_revenue_interview_coder,
     cumulative_amount_interview_coder |-> record.cumulative_revenue_interview_coder,
     amount_cluely |-> record.daily_revenue_cluely,
     cumulative_amount_cluely |-> record.cumulative_revenue_cluely,
     total_daily_revenue |-> record.total_daily_revenue,
     total_cumulative_revenue |-> record.total_cumulative_revenue]

\* recentDataStartTimestamp: the day after the last historical date (or after
\* the fallback date), at midnight UTC.
RecentDataStart(historical) ==
    LET lastHistoricalDate ==
            IF Len(historical) > 0
            THEN DateParse(historical[Len(historical)].date)
            ELSE DateParse(FallbackLastDate)
    IN lastHistoricalDate + HoursPerDay

\* Faulty variant: nothing is filtered out.
FilterExistingKeepsAll(revenue, historical) == revenue

\* revenue.filter((entry) => !existingDates.has(entry.date))
FilterExisting(revenue, historical) ==
    LET existingDates == Dates(historical)
    IN SelectSeq(revenue, LAMBDA entry : entry.date \notin existingDates)

\* const recentData = combineRecentRevenueData(...), seeded with the
\* cumulatives of the last historical entry (0 without one).
RecentData(historical, icRevenue, clRevenue) ==
    LET lastHistoricalEntry == historical[Len(historical)]
        has == Len(historical) > 0
    IN combineRecentRevenueData(
           icRevenue, clRevenue,
           IF has THEN lastHistoricalEntry.cumulative_amount_interview_coder ELSE 0,
           IF has THEN lastHistoricalEntry.cumulative_amount_cluely ELSE 0,
           IF has THEN lastHistoricalEntry.total_cumulative_revenue ELSE 0)

\* Faulty variant: the recent rows are put before the historical ones.
CombinedDataRecentFirst(historical, recentData) == recentData \o historical

\* const combinedData = [...historicalData, ...recentData]
CombinedData(historical, recentData) == historical \o recentData

NoResponse == [status |-> 0]
ErrorResponse(message) == [status |-> 500, error |-> message]

\* Faulty variant: an empty series makes the handler throw, and answer 500.
EmptyResponseThrows == ErrorResponse("Failed to fetch revenue data")

\* if (combinedData.length === 0) return NextResponse.json({ ... })
EmptyResponse ==
    [status |-> 200,
     revenue_data |-> <<>>,
     today_revenue |-> [interview_coder |-> 0, cluely |-> 0, total |-> 0],
     total_revenue |-> [interview_coder |-> 0, cluely |-> 0, total |-> 0]]

\* The response built around the entry revenueEntry of the series.
SnapshotOf(combinedData, revenueEntry, usingTodayData) ==
    [status |-> 200,
     revenue_data |-> combinedData,
     today_revenue |->
         [interview_coder |-> revenueEntry.amount_interview_coder,
          cluely |-> revenueEntry.amount_cluely,
          total |-> revenueEntry.total_daily_revenue,
          date |-> revenueEntry.date,
          is_today |-> usingTodayData],
     total_revenue |->
         [interview_coder |-> revenueEntry.cumulative_amount_interview_coder,
          cluely |-> revenueEntry.cumulative_amount_cluely,
          total |-> revenueEntry.total_cumulative_revenue]]

\* Faulty variant: the last row is taken whether or not today has a row.
SnapshotResponseLastRow(combinedData, clock) ==
    SnapshotOf(combinedData, combinedData[Len(combinedData)],
               \E i \in DOMAIN combinedData :
                   combinedData[i].date = convertToPacificTime(clock))

\* const todayEntry = combinedData.find(...); revenueEntry = todayEntry || lastEntry
SnapshotResponse(combinedData, clock) ==
    LET todayDateString == convertToPacificTime(clock)
        found == {i \in DOMAIN combinedData : combinedData[i].date = todayDateString}
        usingTodayData == found # {}
        revenueEntry ==
            IF usingTodayData
            THEN combinedData[CHOOSE i \in found : \A j \in found : i <= j]
            ELSE combinedData[Len(combinedData)]
    IN SnapshotOf(combinedData, revenueEntry, usingTodayData)

\* The body of the success response for a series and the clock.
ResponseFor(combinedData, clock) ==
    IF Len(combinedData) = 0
    THEN EmptyResponse
    ELSE SnapshotResponse(combinedData, clock)

\* null, as the state of the dashboard holds it.
Null == [null |-> TRUE]
NoError == "null"

\* The initial values of the useState calls of RevenueDashboard.
DashboardNotRendered ==
    /\ revenueData = Null
    /\ geographicalData = Null
    /\ initialLoading = TRUE
    /\ refreshing = FALSE
    /\ error = NoError
    /\ prevTotal = 0
    /\ prevCluelyTotal = 0
    /\ prevInterviewCoderTotal = 0
    /\ inFlight = [initial |-> 0, refresh |-> 0]
    /\ fetchCount = 0
    /\ lastLoaded = Null
    /\ lastOutcome = Null

\* getGeographicalRevenue at its first line, for one account.
ChargeFetchNotStarted ==
    [allCharges |-> <<>>, hasMore |-> TRUE, pageCount |-> 0,
     pageFailed |-> FALSE, threw |-> FALSE, returned |-> FALSE]

\* No request to the geographical route.
GeographicalNotRequested ==
    /\ keysSet = TRUE
    /\ chargeFetch = [a \in Accounts |-> ChargeFetchNotStarted]
    /\ geoData = [a \in Accounts |-> <<>>]

\* No CountUp is rendered. A ref that holds null is 0: the code tests the
\* refs for truthiness only.
CountUpNotRendered ==
    /\ props = [value |-> 0, prevValue |-> 0]
    /\ displayValue = 0
    /\ startTimeRef = 0
    /\ animationFrameRef = 0
    /\ frameRequested = FALSE
    /\ frameTime = 0
    /\ framesRun = 0
    /\ elapsedSeen = 0
    /\ renders = 0

\* fetchAllTransactionsImproved at its first line.
FetchNotStarted ==
    /\ allTransactions = <<>>
    /\ hasMore = TRUE
    /\ lastId = NoId
    /\ pageCount = 0
    /\ pageLog = <<>>

Init ==
    /\ pc = "start"
    /\ csvReadable \in BOOLEAN
    /\ now \in NowTimes
    /\ records = <<>>
    /\ historicalData = <<>>
    /\ recentDataStartTimestamp = 0
    /\ fetched = [a \in Accounts |-> <<>>]
    /\ fetchFailed = {}
    /\ interviewCoderRevenue = <<>>
    /\ cluelyRevenue = <<>>
    /\ response = NoResponse
    /\ transactions = <<>>
    /\ dailyRevenue = <<>>
    /\ FetchNotStarted
    /\ DashboardNotRendered
    /\ GeographicalNotRequested
    /\ CountUpNotRendered

\* One of the two API keys is not set.
MissingApiKeys ==
    /\ pc = "start"
    /\ response' = ErrorResponse("Please ensure both keys are set")
    /\ pc' = "done"
    /\ UNCHANGED <<csvReadable, now, records, historicalData, recentDataStartTimestamp, fetched,
                   fetchFailed, interviewCoderRevenue, cluelyRevenue, aggVars, fetchVars, dashVars, geoVars, countVars>>

\* Faulty variant: an unreadable file is taken for an empty ledger.
CsvUnreadableContinues ==
    /\ pc = "start"
    /\ ~csvReadable
    /\ records' = <<>>
    /\ historicalData' = <<>>
    /\ recentDataStartTimestamp' = RecentDataStart(historicalData')
    /\ pc' = "fetch_interview_coder"
    /\ UNCHANGED <<csvReadable, now, fetched, fetchFailed, interviewCoderRevenue, cluelyRevenue,
                   response, aggVars, fetchVars, dashVars, geoVars, countVars>>

\* readFileSync or parse throws.
CsvUnreadable ==
    /\ pc = "start"
    /\ ~csvReadable
    /\ response' = ErrorResponse("Failed to read historical data")
    /\ pc' = "done"
    /\ UNCHANGED <<csvReadable, now, records, historicalData, recentDataStartTimestamp, fetched,
                   fetchFailed, interviewCoderRevenue, cluelyRevenue, aggVars, fetchVars, dashVars, geoVars, countVars>>

\* The CSV file is read and the first fetch is started.
ReadCsv ==
    /\ pc = "start"
    /\ csvReadable
    /\ \E file \in CsvFiles :
          /\ records' = file
          /\ historicalData' = [i \in DOMAIN file |-> HistoricalEntry(file[i])]
    /\ recentDataStartTimestamp' = RecentDataStart(historicalData')
    /\ pc' = "fetch_interview_coder"
    /\ UNCHANGED <<csvReadable, now, fetched, fetchFailed, interviewCoderRevenue, cluelyRevenue,
                   response, aggVars, fetchVars, dashVars, geoVars, countVars>>

\* await getStripeRevenue(interviewCoderStripe, ...) returns, and is filtered.
InterviewCoderFetched ==
    /\ pc = "fetch_interview_coder"
    /\ \E batch \in ChargeBatches("interview_coder") :
          LET revenue == getStripeRevenue(batch)
          IN /\ fetched' = [fetched EXCEPT !.interview_coder = revenue]
             /\ interviewCoderRevenue' = FilterExisting(revenue, historicalData)
    /\ pc' = "fetch_cluely"
    /\ UNCHANGED <<csvReadable, now, records, historicalData, recentDataStartTimestamp, fetchFailed,
                   cluelyRevenue, response, aggVars, fetchVars, dashVars, geoVars, countVars>>

\* await getStripeRevenue(interviewCoderStripe, ...) throws: the catch logs.
InterviewCoderFetchThrows ==
    /\ pc = "fetch_interview_coder"
    /\ fetchFailed' = fetchFailed \cup {"interview_coder"}
    /\ pc' = "fetch_cluely"
    /\ UNCHANGED <<csvReadable, now, records, historicalData, recentDataStartTimestamp, fetched,
                   interviewCoderRevenue, cluelyRevenue, response, aggVars, fetchVars, dashVars, geoVars, countVars>>

\* The rest of the handler, once cluelyRevenue is settled.
Respond(cluely) ==
    /\ cluelyRevenue' = cluely
    /\ response' = ResponseFor(
           CombinedData(historicalData,
                        RecentData(historicalData, interviewCoderRevenue, cluely)),
           now)
    /\ pc' = "done"

\* await getStripeRevenue(cluelyStripe, ...) returns, and is filtered.
CluelyFetched ==
    /\ pc = "fetch_cluely"
    /\ \E batch \in ChargeBatches("cluely") :
          LET revenue == getStripeRevenue(batch)
          IN /\ fetched' = [fetched EXCEPT !.cluely = revenue]
             /\ Respond(FilterExisting(revenue, historicalData))
    /\ UNCHANGED <<csvReadable, now, records, historicalData, recentDataStartTimestamp, fetchFailed,
                   interviewCoderRevenue, aggVars, fetchVars, dashVars, geoVars, countVars>>

\* Faulty variant: the failure of the fetch fails the request.
CluelyFetchAborts ==
    /\ pc = "fetch_cluely"
    /\ fetchFailed' = fetchFailed \cup {"cluely"}
    /\ response' = ErrorResponse("Failed to fetch revenue data")
    /\ pc' = "done"
    /\ UNCHANGED <<csvReadable, now, records, historicalData, recentDataStartTimestamp, fetched,
                   interviewCoderRevenue, cluelyRevenue, aggVars, fetchVars, dashVars, geoVars, countVars>>

\* await getStripeRevenue(cluelyStripe, ...) throws: the catch logs.
CluelyFetchThrows ==
    /\ pc = "fetch_cluely"
    /\ fetchFailed' = fetchFailed \cup {"cluely"}
    /\ Respond(cluelyRevenue)
    /\ UNCHANGED <<csvReadable, now, records, historicalData, recentDataStartTimestamp, fetched,
                   interviewCoderRevenue, aggVars, fetchVars, dashVars, geoVars, countVars>>

Next ==
    \/ MissingApiKeys
    \/ CsvUnreadable
    \/ ReadCsv
    \/ InterviewCoderFetched
    \/ InterviewCoderFetchThrows
    \/ CluelyFetched
    \/ CluelyFetchThrows

Spec == Init /\ [][Next]_vars

\* ------------------------------------- getStripeRevenue on its own
InitAgg ==
    /\ pc = "fetched"
    /\ csvReadable = TRUE
    /\ now \in NowTimes
    /\ records = <<>>
    /\ historicalData = <<>>
    /\ recentDataStartTimestamp = 0
    /\ fetched = [a \in Accounts |-> <<>>]
    /\ fetchFailed = {}
    /\ interviewCoderRevenue = <<>>
    /\ cluelyRevenue = <<>>
    /\ response = NoResponse
    /\ transactions \in Batches(Transactions)
    /\ dailyRevenue = <<>>
    /\ FetchNotStarted
    /\ DashboardNotRendered
    /\ GeographicalNotRequested
    /\ CountUpNotRendered

\* The transactions are processed and the sorted array is returned.
Aggregate ==
    /\ pc = "fetched"
    /\ dailyRevenue' = getStripeRevenue(transactions)
    /\ pc' = "aggregated"
    /\ UNCHANGED <<csvReadable, now, records, historicalData, recentDataStartTimestamp, fetched,
                   fetchFailed, interviewCoderRevenue, cluelyRevenue, response,
                   transactions, fetchVars, dashVars, geoVars, countVars>>

NextAgg == Aggregate

SpecAgg == InitAgg /\ [][NextAgg]_vars

\* ------------------------ getStripeRevenue with fetchAllTransactionsImproved
\* The balance transactions of the account, with their ids: two charges on
\* different Pacific days and a refund.
PageTransactions ==
    {[id |-> 1, type |-> "charge", reporting_category |-> "charge", amount |-> 1500,
      currency |-> "usd", created |-> DateParse(1) + 2, available_on |-> DateParse(1) + 2],
     [id |-> 2, type |-> "charge", reporting_category |-> "charge", amount |-> 2500,
      currency |-> "usd", created |-> DateParse(1) + 15, available_on |-> DateParse(1) + 15],
     [id |-> 3, type |-> "refund", reporting_category |-> "refund", amount |-> 0 - 500,
      currency |-> "usd", created |-> DateParse(1) + 15, available_on |-> DateParse(1) + 15]}

\* transactions.data of a page: up to MaxPageLen transactions, none twice.
Pages ==
    {page \in UNION {[1..n -> PageTransactions] : n \in 0..MaxPageLen} :
        \A i, j \in DOMAIN page : i # j => page[i].id # page[j].id}

InitFetch ==
    /\ pc = "paging"
    /\ csvReadable = TRUE
    /\ now = DateParse(MaxDay) + 15
    /\ records = <<>>
    /\ historicalData = <<>>
    /\ recentDataStartTimestamp = 0
    /\ fetched = [a \in Accounts |-> <<>>]
    /\ fetchFailed = {}
    /\ interviewCoderRevenue = <<>>
    /\ cluelyRevenue = <<>>
    /\ response = NoResponse
    /\ transactions = <<>>
    /\ dailyRevenue = <<>>
    /\ FetchNotStarted
    /\ DashboardNotRendered
    /\ GeographicalNotRequested
    /\ CountUpNotRendered

\* The request of the next page: what the loop leaves in params.
PageRequest == [starting_after |-> lastId]

\* fetchAllTransactionsImproved returns `all`; getStripeRevenue aggregates it.
ReturnTransactions(all) ==
    /\ transactions' = all
    /\ dailyRevenue' = getStripeRevenue(all)
    /\ pc' = "aggregated"

\* Faulty variant: the pages are not counted, so that the loop goes on for as
\* long as has_more is true.
PageReturnsUncounted ==
    /\ pc = "paging"
    /\ hasMore
    /\ \E data \in Pages, has_more \in BOOLEAN :
          /\ pageLog' = Append(pageLog, [request |-> PageRequest, ok |-> TRUE,
                                         data |-> data, has_more |-> has_more])
          /\ allTransactions' = allTransactions \o data
          /\ hasMore' = has_more
          /\ lastId' = IF has_more /\ Len(data) > 0 THEN data[Len(data)].id ELSE lastId
    /\ pageCount' = pageCount
    /\ IF hasMore'
       THEN pc' = "paging" /\ UNCHANGED <<transactions, dailyRevenue>>
       ELSE ReturnTransactions(allTransactions')
    /\ UNCHANGED <<csvReadable, now, records, historicalData, recentDataStartTimestamp, fetched,
                   fetchFailed, interviewCoderRevenue, cluelyRevenue, response, dashVars, geoVars, countVars>>

\* The list call of a page resolves; the loop goes on or the function returns.
PageReturns ==
    /\ pc = "paging"
    /\ hasMore /\ pageCount < maxPages
    /\ \E data \in Pages, has_more \in BOOLEAN :
          /\ pageLog' = Append(pageLog, [request |-> PageRequest, ok |-> TRUE,
                                         data |-> data, has_more |-> has_more])
          /\ allTransactions' = allTransactions \o data
          /\ hasMore' = has_more
          /\ lastId' = IF has_more /\ Len(data) > 0 THEN data[Len(data)].id ELSE lastId
    /\ pageCount' = pageCount + 1
    /\ IF hasMore' /\ pageCount' < maxPages
       THEN pc' = "paging" /\ UNCHANGED <<transactions, dailyRevenue>>
       ELSE ReturnTransactions(allTransactions')
    /\ UNCHANGED <<csvReadable, now, records, historicalData, recentDataStartTimestamp, fetched,
                   fetchFailed, interviewCoderRevenue, cluelyRevenue, response, dashVars, geoVars, countVars>>

\* Faulty variant: a failed page fails the fetch whatever was collected.
PageFailsAlwaysThrows ==
    /\ pc = "paging"
    /\ hasMore /\ pageCount < maxPages
    /\ pageLog' = Append(pageLog, [request |-> PageRequest, ok |-> FALSE,
                                   data |-> <<>>, has_more |-> FALSE])
    /\ pageCount' = pageCount + 1
    /\ hasMore' = FALSE
    /\ pc' = "threw"
    /\ UNCHANGED <<transactions, dailyRevenue, allTransactions, lastId>>
    /\ UNCHANGED <<csvReadable, now, records, historicalData, recentDataStartTimestamp, fetched,
                   fetchFailed, interviewCoderRevenue, cluelyRevenue, response, dashVars, geoVars, countVars>>

\* The list call of a page rejects, or the 10 s timer wins the race.
PageFails ==
    /\ pc = "paging"
    /\ hasMore /\ pageCount < maxPages
    /\ pageLog' = Append(pageLog, [request |-> PageRequest, ok |-> FALSE,
                                   data |-> <<>>, has_more |-> FALSE])
    /\ pageCount' = pageCount + 1
    /\ hasMore' = FALSE
    /\ IF Len(allTransactions) > 0
       THEN ReturnTransactions(allTransactions)
       ELSE pc' = "threw" /\ UNCHANGED <<transactions, dailyRevenue>>
    /\ UNCHANGED <<allTransactions, lastId>>
    /\ UNCHANGED <<csvReadable, now, records, historicalData, recentDataStartTimestamp, fetched,
                   fetchFailed, interviewCoderRevenue, cluelyRevenue, response, dashVars, geoVars, countVars>>

NextFetch == PageReturns \/ PageFails

SpecFetch == InitFetch /\ [][NextFetch]_vars

\* Every page request settles: the list call is raced against a 10 s timer
\* that rejects.
SpecFetchFair == SpecFetch /\ WF_vars(NextFetch)

\* ------------------------------------------------------- RevenueDashboard
\* The bodies /api/revenue answers a successful request with (the totals of
\* ResponseFor, here in whole units).
RevenuePayloads ==
    {[total_revenue |-> [interview_coder |-> 700, cluely |-> 300, total |-> 1000]],
     [total_revenue |-> [interview_coder |-> 710, cluely |-> 302, total |-> 1012]]}

\* How the revenue request of a fetch ends: a body without an error field,
\* a body with one, a status that is not OK, or a rejection (of fetch or of
\* json()).
RevenueOutcomes ==
    {[kind |-> "ok", body |-> payload] : payload \in RevenuePayloads}
    \cup {[kind |-> "error_field", body |-> [error |-> "Failed to fetch revenue data"]],
          [kind |-> "http_error", body |-> Null],
          [kind |-> "rejects", body |-> Null]}

\* How the geographical request of a fetch ends.
GeographicalOutcomes == {"ok", "error_field", "http_error", "rejects", "invalid_json"}
GeographicalPayload == [geographical_data |-> "points"]

\* await Promise.all([...]) rejects when either request does.
PromiseAllRejects(revenue, geographical) ==
    revenue.kind = "rejects" \/ geographical = "rejects"

\* The try block reaches the handling of the revenue body.
RevenueBodyRead(revenue, geographical) ==
    ~PromiseAllRejects(revenue, geographical) /\ revenue.kind # "http_error"

\* Faulty variant: a failed fetch clears the stored revenue data.
RevenueDataAfterClears(current, revenue, geographical) ==
    IF RevenueBodyRead(revenue, geographical) /\ revenue.kind = "ok"
    THEN revenue.body
    ELSE Null

\* revenueData after the fetch: setRevenueData(newRevenueData) or untouched.
RevenueDataAfter(current, revenue, geographical) ==
    IF RevenueBodyRead(revenue, geographical) /\ revenue.kind = "ok"
    THEN revenue.body
    ELSE current

\* error after the fetch: the last setError of the try or of the catch.
ErrorAfter(current, revenue, geographical) ==
    IF PromiseAllRejects(revenue, geographical)
    THEN "Failed to fetch revenue data: fetch failed"
    ELSE IF revenue.kind = "http_error"
    THEN "Failed to fetch revenue data: Revenue API error! status: 500"
    ELSE IF geographical = "invalid_json"
    THEN "Failed to fetch revenue data: Unexpected token"
    ELSE IF revenue.kind = "error_field"
    THEN revenue.body.error
    ELSE NoError

\* geographicalData after the fetch.
GeographicalDataAfter(current, revenue, geographical) ==
    IF RevenueBodyRead(revenue, geographical) /\ geographical = "ok"
    THEN GeographicalPayload
    ELSE current

\* What the three branches of the render show.
View ==
    IF initialLoading THEN "loading"
    ELSE IF error # NoError /\ revenueData = Null THEN "error"
    ELSE "data"

\* getDisplayValue(), splitRevenue off.
getDisplayValue == IF revenueData = Null THEN 0 ELSE revenueData.total_revenue.total

InitDash ==
    /\ pc = "mounting"
    /\ csvReadable = TRUE
    /\ now = DateParse(MaxDay) + 15
    /\ records = <<>>
    /\ historicalData = <<>>
    /\ recentDataStartTimestamp = 0
    /\ fetched = [a \in Accounts |-> <<>>]
    /\ fetchFailed = {}
    /\ interviewCoderRevenue = <<>>
    /\ cluelyRevenue = <<>>
    /\ response = NoResponse
    /\ transactions = <<>>
    /\ dailyRevenue = <<>>
    /\ FetchNotStarted
    /\ DashboardNotRendered
    /\ GeographicalNotRequested
    /\ CountUpNotRendered

\* useEffect(..., []): fetchRevenueData(true) and setInterval.
Mount ==
    /\ pc = "mounting"
    /\ pc' = "mounted"
    /\ initialLoading' = TRUE
    /\ inFlight' = [inFlight EXCEPT !.initial = @ + 1]
    /\ fetchCount' = fetchCount + 1
    /\ UNCHANGED <<revenueData, geographicalData, refreshing, error, prevTotal,
                   prevCluelyTotal, prevInterviewCoderTotal, lastLoaded, lastOutcome>>
    /\ UNCHANGED <<csvReadable, now, records, historicalData, recentDataStartTimestamp, fetched,
                   fetchFailed, interviewCoderRevenue, cluelyRevenue, response, aggVars,
                   fetchVars, geoVars, countVars>>

\* fetchRevenueData(false) up to its await, in a closure whose revenueData is
\* `seen`.
StartRefresh(seen) ==
    /\ fetchCount < MaxFetches
    /\ refreshing' = TRUE
    /\ IF seen # Null
       THEN /\ prevTotal' = seen.total_revenue.total
            /\ prevCluelyTotal' = seen.total_revenue.cluely
            /\ prevInterviewCoderTotal' = seen.total_revenue.interview_coder
       ELSE UNCHANGED <<prevTotal, prevCluelyTotal, prevInterviewCoderTotal>>
    /\ inFlight' = [inFlight EXCEPT !.refresh = @ + 1]
    /\ fetchCount' = fetchCount + 1
    /\ UNCHANGED <<pc, revenueData, geographicalData, initialLoading, error, lastLoaded,
                   lastOutcome>>
    /\ UNCHANGED <<csvReadable, now, records, historicalData, recentDataStartTimestamp, fetched,
                   fetchFailed, interviewCoderRevenue, cluelyRevenue, response, aggVars,
                   fetchVars, geoVars, countVars>>

\* The interval fires. Its callback was created by the effect of the first
\* render (the dependency array is []), so the fetchRevenueData it calls is
\* the one of the first render, whose revenueData is null.
AutoRefresh ==
    /\ pc = "mounted"
    /\ StartRefresh(Null)

\* handleRefresh, the onClick of the Retry button: the button is rendered in
\* the error branch only, and the handler is the one of the current render.
ManualRefresh ==
    /\ pc = "mounted"
    /\ View = "error"
    /\ ~refreshing
    /\ StartRefresh(revenueData)

\* Faulty variant: the flags are reset at the end of the try, not in a finally,
\* so that a fetch that throws leaves them as they are.
FetchCompletesNoFinally(isInitialLoad) ==
    /\ pc = "mounted"
    /\ IF isInitialLoad
       THEN inFlight.initial > 0 /\ inFlight' = [inFlight EXCEPT !.initial = @ - 1]
       ELSE inFlight.refresh > 0 /\ inFlight' = [inFlight EXCEPT !.refresh = @ - 1]
    /\ \E revenue \in RevenueOutcomes, geographical \in GeographicalOutcomes :
          /\ revenueData' = RevenueDataAfter(revenueData, revenue, geographical)
          /\ error' = ErrorAfter(error, revenue, geographical)
          /\ geographicalData' = GeographicalDataAfter(geographicalData, revenue, geographical)
          /\ lastLoaded' = IF RevenueBodyRead(revenue, geographical) /\ revenue.kind = "ok"
                            THEN revenue.body
                            ELSE lastLoaded
          /\ lastOutcome' = [revenue |-> revenue, geographical |-> geographical]
    /\ IF error' \in {NoError, "Failed to fetch revenue data"}
       THEN /\ initialLoading' = IF isInitialLoad THEN FALSE ELSE initialLoading
            /\ refreshing' = FALSE
       ELSE UNCHANGED <<initialLoading, refreshing>>
    /\ UNCHANGED <<pc, prevTotal, prevCluelyTotal, prevInterviewCoderTotal, fetchCount>>
    /\ UNCHANGED <<csvReadable, now, records, historicalData, recentDataStartTimestamp, fetched,
                   fetchFailed, interviewCoderRevenue, cluelyRevenue, response, aggVars,
                   fetchVars, geoVars, countVars>>

\* Promise.all settles for a call of fetchRevenueData(isInitialLoad): the rest
\* of the try, the catch and the finally.
FetchCompletes(isInitialLoad) ==
    /\ pc = "mounted"
    /\ IF isInitialLoad
       THEN inFlight.initial > 0 /\ inFlight' = [inFlight EXCEPT !.initial = @ - 1]
       ELSE inFlight.refresh > 0 /\ inFlight' = [inFlight EXCEPT !.refresh = @ - 1]
    /\ \E revenue \in RevenueOutcomes, geographical \in GeographicalOutcomes :
          /\ revenueData' = RevenueDataAfter(revenueData, revenue, geographical)
          /\ error' = ErrorAfter(error, revenue, geographical)
          /\ geographicalData' = GeographicalDataAfter(geographicalData, revenue, geographical)
          /\ lastLoaded' = IF RevenueBodyRead(revenue, geographical) /\ revenue.kind = "ok"
                            THEN revenue.body
                            ELSE lastLoaded
          /\ lastOutcome' = [revenue |-> revenue, geographical |-> geographical]
    /\ initialLoading' = IF isInitialLoad THEN FALSE ELSE initialLoading
    /\ refreshing' = FALSE
    /\ UNCHANGED <<pc, prevTotal, prevCluelyTotal, prevInterviewCoderTotal, fetchCount>>
    /\ UNCHANGED <<csvReadable, now, records, historicalData, recentDataStartTimestamp, fetched,
                   fetchFailed, interviewCoderRevenue, cluelyRevenue, response, aggVars,
                   fetchVars, geoVars, countVars>>

NextDash ==
    \/ Mount
    \/ AutoRefresh
    \/ ManualRefresh
    \/ \E isInitialLoad \in BOOLEAN : FetchCompletes(isInitialLoad)

SpecDash == InitDash /\ [][NextDash]_vars

\* The effect runs after the first render, and every fetch() settles.
SpecDashFair ==
    /\ SpecDash
    /\ WF_vars(Mount)
    /\ \A isInitialLoad \in BOOLEAN : WF_vars(FetchCompletes(isInitialLoad))

\* ------------------------------------------------------ GET /geographical
\* A point carries country (its key), revenue (hundredths), transactionCount
\* and intensity (thousandths); coordinates, size and color depend on these
\* and on Math.random() only and are left out. Divisions are whole-number
\* divisions.
Min2(a, b) == IF a < b THEN a ELSE b
Max2(a, b) == IF a > b THEN a ELSE b

\* What charge.billing_details.address.country (or a fallback) may hold: a
\* code with coordinates, a code without, or a value that is not a string.
NotAString == "<not a string>"
ChargeCountries == {"US", "GB", "ZZ", NotAString}
Charges ==
    {[amount |-> IF country = "GB" THEN 2500 ELSE 1500, status |-> "succeeded",
      currency |-> "usd", country |-> country] : country \in ChargeCountries}

\* chargesResponse.data: a page holds one charge or none (limit: 100, scaled).
ChargePages == {<<>>} \cup {<<charge>> : charge \in Charges}

\* getCountryCoordinates(countryCode) is not null.
getCountryCoordinates(countryCode) == countryCode \in {"US", "GB"}

\* The test of the loop over allCharges.
ChargeCounts(charge) == charge.amount > 0 /\ charge.status = "succeeded"

\* countryCode.toUpperCase() on a value that is not a string throws.
ProcessingThrows(charges) ==
    \E i \in DOMAIN charges :
        ChargeCounts(charges[i]) /\ charges[i].country = NotAString

\* locationData.set(country, existing) after existing.revenue += amount and
\* existing.count += 1.
AddLocation(locationData, country, amount) ==
    IF \E i \in DOMAIN locationData : locationData[i].country = country
    THEN [i \in DOMAIN locationData |->
             IF locationData[i].country = country
             THEN [locationData[i] EXCEPT !.revenue = @ + amount, !.count = @ + 1]
             ELSE locationData[i]]
    ELSE Append(locationData, [country |-> country, revenue |-> amount, count |-> 1])

\* for (const charge of allCharges) { ... }
RECURSIVE ExtractLocations(_, _)
ExtractLocations(charges, locationData) ==
    IF charges = <<>> THEN locationData
    ELSE LET charge == Head(charges)
             next == IF /\ ChargeCounts(charge)
                        /\ charge.country # ""
                        /\ getCountryCoordinates(charge.country)
                     THEN AddLocation(locationData, charge.country, ConvertAmount(charge))
                     ELSE locationData
         IN ExtractLocations(Tail(charges), next)

\* The demo countries of an account without location data (eight in the code)
\* and what Math.random() may give each: revenue and count (amounts scaled
\* down by 100).
DemoCountries == <<"US", "GB">>
RandomDemoValues == {[revenue |-> 2000, count |-> 5], [revenue |-> 5000, count |-> 10]}
RandomDemoLocations ==
    {[i \in DOMAIN DemoCountries |->
         [country |-> DemoCountries[i], revenue |-> draw[i].revenue, count |-> draw[i].count]] :
        draw \in [DOMAIN DemoCountries -> RandomDemoValues]}

\* The key of point i of a country, `${countryCode}-${i}`, and `demo-${country}`.
PointKey(countryCode, i) == [code |-> countryCode, index |-> i, demo |-> FALSE]
DemoKey(country) == [code |-> country, index |-> 0, demo |-> TRUE]

\* The intensity of a revenue against the thresholds of maxRevenue.
Intensity(revenue, maxRevenue) ==
    LET highThreshold == (maxRevenue * 7) \div 10
        mediumHighThreshold == (maxRevenue * 4) \div 10
        mediumThreshold == (maxRevenue * 2) \div 10
        lowThreshold == (maxRevenue * 5) \div 100
        Part(low, high) == IF high = low THEN 0 ELSE ((revenue - low) * 200) \div (high - low)
    IN IF revenue >= highThreshold THEN 800 + Part(highThreshold, maxRevenue)
       ELSE IF revenue >= mediumHighThreshold
            THEN 600 + Part(mediumHighThreshold, highThreshold)
       ELSE IF revenue >= mediumThreshold
            THEN 400 + Part(mediumThreshold, mediumHighThreshold)
       ELSE IF revenue >= lowThreshold THEN 200 + Part(lowThreshold, mediumThreshold)
       ELSE Part(0, lowThreshold)

MaxRevenue(locationData) ==
    IF locationData = <<>> THEN 1
    ELSE Max({locationData[i].revenue : i \in DOMAIN locationData})

\* const pointCount = Math.min(Math.max(1, Math.floor(data.count / 5)), 6)
PointCount(count) == Min2(Max2(1, count \div 5), 6)

\* The points pushed for one entry of locationData.
PointsOf(data, maxRevenue) ==
    LET pointCount == PointCount(data.count)
    IN [k \in 1..pointCount |->
           [country |-> PointKey(data.country, k - 1),
            revenue |-> data.revenue \div pointCount,
            transactionCount |-> (data.count + pointCount - 1) \div pointCount,
            intensity |-> Intensity(data.revenue, maxRevenue)]]

\* locationData.forEach((data, countryCode) => { ... allPoints.push(...) })
RECURSIVE AllPoints(_, _)
AllPoints(locationData, maxRevenue) ==
    IF locationData = <<>> THEN <<>>
    ELSE PointsOf(Head(locationData), maxRevenue) \o AllPoints(Tail(locationData), maxRevenue)

\* createDemoGeographicalData(): the fixed list (eight entries in the code,
\* amounts scaled down by 100).
DemoData ==
    <<[country |-> "US", revenue |-> 15000, count |-> 45],
      [country |-> "GB", revenue |-> 8500, count |-> 25]>>
createDemoGeographicalData ==
    [i \in DOMAIN DemoData |->
        [country |-> DemoKey(DemoData[i].country),
         revenue |-> DemoData[i].revenue,
         transactionCount |-> DemoData[i].count,
         intensity |-> Intensity(DemoData[i].revenue, MaxRevenue(DemoData))]]

\* What getGeographicalRevenue returns for the charges it fetched, demo being
\* the random locations it falls back to.
getGeographicalRevenue(charges, demo) ==
    IF ProcessingThrows(charges)
    THEN createDemoGeographicalData
    ELSE LET extracted == ExtractLocations(charges, <<>>)
             locationData == IF extracted = <<>> THEN demo ELSE extracted
         IN AllPoints(locationData, MaxRevenue(locationData))

\* The objects of GET are held in a heap (a sequence); a list is a sequence of
\* references into it, and combinedMap a sequence of [key, ref] in insertion
\* order.
\* Faulty variant: the object itself is put into the map.
CloneShares(heap, ref) == [heap |-> heap, ref |-> ref]

\* { ...data }: a new object with the same fields.
Clone(heap, ref) == [heap |-> Append(heap, heap[ref]), ref |-> Len(heap) + 1]

\* combinedMap.set(key, the object at ref)
CombinedMapSet(map, key, ref) ==
    IF \E i \in DOMAIN map : map[i].key = key
    THEN [i \in DOMAIN map |-> IF map[i].key = key THEN [key |-> key, ref |-> ref] ELSE map[i]]
    ELSE Append(map, [key |-> key, ref |-> ref])

\* interviewCoderData.forEach(data => combinedMap.set(data.country, { ...data }))
RECURSIVE AddInterviewCoder(_, _)
AddInterviewCoder(st, refs) ==
    IF refs = <<>> THEN st
    ELSE LET data == Head(refs)
             copy == Clone(st.heap, data)
         IN AddInterviewCoder(
                [heap |-> copy.heap,
                 map |-> CombinedMapSet(st.map, st.heap[data].country, copy.ref)],
                Tail(refs))

\* cluelyData.forEach(data => { existing ? existing.revenue += ... : set(copy) })
RECURSIVE MergeCluely(_, _)
MergeCluely(st, refs) ==
    IF refs = <<>> THEN st
    ELSE LET data == Head(refs)
             key == st.heap[data].country
             at == {i \in DOMAIN st.map : st.map[i].key = key}
             next ==
                 IF at # {}
                 THEN LET existing == st.map[CHOOSE i \in at : TRUE].ref
                      IN [heap |-> [st.heap EXCEPT
                                       ![existing].revenue = @ + st.heap[data].revenue,
                                       ![existing].transactionCount =
                                           @ + st.heap[data].transactionCount],
                          map |-> st.map]
                 ELSE LET copy == Clone(st.heap, data)
                      IN [heap |-> copy.heap,
                          map |-> CombinedMapSet(st.map, key, copy.ref)]
         IN MergeCluely(next, Tail(refs))

\* combinedData.forEach(data => { data.intensity = ... })
RECURSIVE Recalculate(_, _, _)
Recalculate(heap, refs, maxCombinedRevenue) ==
    IF refs = <<>> THEN heap
    ELSE LET data == Head(refs)
             intensity == IF maxCombinedRevenue > 0
                          THEN (heap[data].revenue * 1000) \div maxCombinedRevenue
                          ELSE 0
         IN Recalculate([heap EXCEPT ![data].intensity = intensity], Tail(refs),
                        maxCombinedRevenue)

\* The body GET answers with, from the two arrays Promise.all resolved with.
GeographicalResponse(interviewCoderData, cluelyData) ==
    LET heap0 == interviewCoderData \o cluelyData
        icRefs == [i \in DOMAIN interviewCoderData |-> i]
        clRefs == [i \in DOMAIN cluelyData |-> Len(interviewCoderData) + i]
        merged == MergeCluely(AddInterviewCoder([heap |-> heap0, map |-> <<>>], icRefs),
                              clRefs)
        combinedData == [i \in DOMAIN merged.map |-> merged.map[i].ref]
        maxCombinedRevenue ==
            Max({merged.heap[combinedData[i]].revenue : i \in DOMAIN combinedData})
        heap == Recalculate(merged.heap, combinedData, maxCombinedRevenue)
    IN [status |-> 200,
        geographical_data |->
            [interview_coder |-> [i \in DOMAIN icRefs |-> heap[icRefs[i]]],
             cluely |-> [i \in DOMAIN clRefs |-> heap[clRefs[i]]],
             combined |-> [i \in DOMAIN combinedData |-> heap[combinedData[i]]]]]

InitGeo ==
    /\ pc = "start"
    /\ csvReadable = TRUE
    /\ now = DateParse(MaxDay) + 15
    /\ records = <<>>
    /\ historicalData = <<>>
    /\ recentDataStartTimestamp = 0
    /\ fetched = [a \in Accounts |-> <<>>]
    /\ fetchFailed = {}
    /\ interviewCoderRevenue = <<>>
    /\ cluelyRevenue = <<>>
    /\ response = NoResponse
    /\ transactions = <<>>
    /\ dailyRevenue = <<>>
    /\ FetchNotStarted
    /\ DashboardNotRendered
    /\ keysSet \in BOOLEAN
    /\ chargeFetch = [a \in Accounts |-> ChargeFetchNotStarted]
    /\ geoData = [a \in Accounts |-> <<>>]
    /\ CountUpNotRendered

\* if (!process.env.STRIPE_INTERVIEW_CODER || !process.env.STRIPE_CLUELY)
GeoMissingApiKeys ==
    /\ pc = "start"
    /\ ~keysSet
    /\ response' = ErrorResponse("Missing Stripe API keys")
    /\ pc' = "done"
    /\ UNCHANGED <<csvReadable, now, records, historicalData, recentDataStartTimestamp, fetched,
                   fetchFailed, interviewCoderRevenue, cluelyRevenue, aggVars, fetchVars,
                   dashVars, geoVars, countVars>>

\* getGeographicalRevenue of `account` leaves its loop with the locals `locals`:
\* it processes the charges and returns; when the other call has returned
\* too, Promise.all resolves and GET answers.
ChargeFetchReturns(account, locals) ==
    \E demo \in RandomDemoLocations :
        /\ chargeFetch' = [chargeFetch EXCEPT ![account] =
               [locals EXCEPT !.returned = TRUE,
                              !.threw = ProcessingThrows(locals.allCharges)]]
        /\ geoData' = [geoData EXCEPT ![account] =
               getGeographicalRevenue(locals.allCharges, demo)]
        /\ IF \A other \in Accounts \ {account} : chargeFetch[other].returned
           THEN /\ response' = GeographicalResponse(geoData'.interview_coder, geoData'.cluely)
                /\ pc' = "done"
           ELSE /\ UNCHANGED response
                /\ pc' = "fetching"

\* The loop of `account` goes on with the locals `locals`, or is left.
ChargeLoop(account, locals) ==
    IF locals.hasMore /\ locals.pageCount < maxChargePages
    THEN /\ chargeFetch' = [chargeFetch EXCEPT ![account] = locals]
         /\ pc' = "fetching"
         /\ UNCHANGED <<geoData, response>>
    ELSE ChargeFetchReturns(account, locals)

\* stripeClient.charges.list resolves for `account`.
ChargePageReturns(account) ==
    /\ pc \in {"start", "fetching"}
    /\ keysSet
    /\ ~chargeFetch[account].returned
    /\ \E data \in ChargePages, has_more \in BOOLEAN :
          ChargeLoop(account,
                     [chargeFetch[account] EXCEPT
                         !.allCharges = @ \o data,
                         !.hasMore = IF Len(data) > 0 THEN has_more ELSE FALSE,
                         !.pageCount = @ + 1])
    /\ UNCHANGED <<csvReadable, now, records, historicalData, recentDataStartTimestamp, fetched,
                   fetchFailed, interviewCoderRevenue, cluelyRevenue, aggVars, fetchVars,
                   dashVars, keysSet, countVars>>

\* Faulty variant: a failed page fails the request.
ChargePageFailsAborts(account) ==
    /\ pc \in {"start", "fetching"}
    /\ keysSet
    /\ ~chargeFetch[account].returned
    /\ chargeFetch' = [chargeFetch EXCEPT ![account].pageFailed = TRUE,
                                          ![account].returned = TRUE]
    /\ response' = ErrorResponse("Failed to fetch geographical data")
    /\ pc' = "done"
    /\ UNCHANGED <<csvReadable, now, records, historicalData, recentDataStartTimestamp, fetched,
                   fetchFailed, interviewCoderRevenue, cluelyRevenue, aggVars, fetchVars,
                   dashVars, keysSet, geoData, countVars>>

\* stripeClient.charges.list rejects for `account`: the catch breaks the loop.
ChargePageFails(account) ==
    /\ pc \in {"start", "fetching"}
    /\ keysSet
    /\ ~chargeFetch[account].returned
    /\ ChargeFetchReturns(account, [chargeFetch[account] EXCEPT !.pageFailed = TRUE])
    /\ UNCHANGED <<csvReadable, now, records, historicalData, recentDataStartTimestamp, fetched,
                   fetchFailed, interviewCoderRevenue, cluelyRevenue, aggVars, fetchVars,
                   dashVars, keysSet, countVars>>

NextGeo ==
    \/ GeoMissingApiKeys
    \/ \E account \in Accounts : ChargePageReturns(account)
    \/ \E account \in Accounts : ChargePageFails(account)

SpecGeo == InitGeo /\ [][NextGeo]_vars

\* ------------------------------------------------------------------ CountUp
\* The values of the props value and prevValue.
CountValues == {0, 16, 32}
Props == [value : CountValues, prevValue : CountValues]

\* easeInOutCubic(elapsed / duration), as a fraction of EaseScale:
\* x < 0.5 ? 4 * x * x * x : 1 - Math.pow(-2 * x + 2, 3) / 2
EaseScale == 2 * duration * duration * duration
easeInOutCubic(elapsed) ==
    IF 2 * elapsed < duration
    THEN 8 * elapsed * elapsed * elapsed
    ELSE EaseScale - 8 * (duration - elapsed) * (duration - elapsed) * (duration - elapsed)

\* const currentValue = prevValue + (value - prevValue) * easedProgress
CurrentValue(p, elapsed) ==
    p.prevValue + ((p.value - p.prevValue) * easeInOutCubic(elapsed)) \div EaseScale

\* The first render: useState(prevValue), useRef(null), useRef(null).
InitCount ==
    /\ pc = "rendered"
    /\ csvReadable = TRUE
    /\ now = DateParse(MaxDay) + 15
    /\ records = <<>>
    /\ historicalData = <<>>
    /\ recentDataStartTimestamp = 0
    /\ fetched = [a \in Accounts |-> <<>>]
    /\ fetchFailed = {}
    /\ interviewCoderRevenue = <<>>
    /\ cluelyRevenue = <<>>
    /\ response = NoResponse
    /\ transactions = <<>>
    /\ dailyRevenue = <<>>
    /\ FetchNotStarted
    /\ DashboardNotRendered
    /\ GeographicalNotRequested
    /\ props \in Props
    /\ displayValue = props.prevValue
    /\ startTimeRef = 0
    /\ animationFrameRef = 0
    /\ frameRequested = FALSE
    /\ frameTime = 0
    /\ framesRun = 0
    /\ elapsedSeen = 0
    /\ renders = 1

\* The body of the effect, run for the props p.
RunEffect(p) ==
    /\ IF p.value = p.prevValue
       THEN /\ displayValue' = p.value
            /\ frameRequested' = FALSE
            /\ UNCHANGED animationFrameRef
       ELSE /\ frameRequested' = TRUE
            /\ animationFrameRef' = 1
            /\ UNCHANGED displayValue
    /\ framesRun' = 0
    /\ elapsedSeen' = 0
    /\ UNCHANGED <<startTimeRef, frameTime>>

\* The effect runs after the first render.
EffectAfterMount ==
    /\ pc = "rendered"
    /\ pc' = "counting"
    /\ RunEffect(props)
    /\ UNCHANGED <<props, renders>>
    /\ UNCHANGED <<csvReadable, now, records, historicalData, recentDataStartTimestamp, fetched,
                   fetchFailed, interviewCoderRevenue, cluelyRevenue, response, aggVars,
                   fetchVars, dashVars, geoVars>>

\* CountUp is rendered with other props: the cleanup of the last effect
\* cancels the pending frame, and the effect runs again.
Rerender(p) ==
    /\ pc = "counting"
    /\ renders < MaxRenders
    /\ p # props
    /\ props' = p
    /\ renders' = renders + 1
    /\ RunEffect(p)
    /\ UNCHANGED <<pc, csvReadable, now, records, historicalData, recentDataStartTimestamp,
                   fetched, fetchFailed, interviewCoderRevenue, cluelyRevenue, response,
                   aggVars, fetchVars, dashVars, geoVars>>

\* The browser runs animate(timestamp), step ticks after the last frame.
AnimationFrame(step) ==
    /\ pc = "counting"
    /\ frameRequested
    /\ frameTime + step <= MaxTimestamp
    /\ frameTime' = frameTime + step
    /\ startTimeRef' = IF startTimeRef = 0 THEN frameTime' ELSE startTimeRef
    /\ elapsedSeen' = frameTime' - startTimeRef'
    /\ IF elapsedSeen' < duration
       THEN /\ displayValue' = CurrentValue(props, elapsedSeen')
            /\ frameRequested' = TRUE
       ELSE /\ displayValue' = props.value
            /\ frameRequested' = FALSE
    /\ framesRun' = framesRun + 1
    /\ UNCHANGED <<props, animationFrameRef, renders>>
    /\ UNCHANGED <<pc, csvReadable, now, records, historicalData, recentDataStartTimestamp,
                   fetched, fetchFailed, interviewCoderRevenue, cluelyRevenue, response,
                   aggVars, fetchVars, dashVars, geoVars>>

NextCount ==
    \/ EffectAfterMount
    \/ \E p \in Props : Rerender(p)
    \/ \E step \in 1..MaxFrameStep : AnimationFrame(step)

SpecCount == InitCount /\ [][NextCount]_vars

\* ===================================================================
\* Properties of the revenue request (specification Spec)
\* ===================================================================
Succeeded == pc = "done" /\ response.status = 200
Series == response.revenue_data
HistoricalLength == Len(records)
AppendedRows == (HistoricalLength + 1)..Len(Series)
LastHistoricalDate == records[HistoricalLength].date

\* The request has answered with at least two rows after a historical prefix.
TwoRowsAppended ==
    /\ Succeeded
    /\ HistoricalLength > 0
    /\ Len(Series) >= HistoricalLength + 2

\* C1: in the returned series, each row after the historical prefix has, for
\* each account, cumulative = the preceding row's cumulative + its own daily
\* amount; the first appended row continues the last CSV record (0 without one).
C1_CumulativeChain ==
    Succeeded =>
        \A i \in AppendedRows :
            LET prevIc == IF i = HistoricalLength + 1
                          THEN IF HistoricalLength = 0 THEN 0
                               ELSE records[HistoricalLength].cumulative_revenue_interview_coder
                          ELSE Series[i - 1].cumulative_amount_interview_coder
                prevCl == IF i = HistoricalLength + 1
                          THEN IF HistoricalLength = 0 THEN 0
                               ELSE records[HistoricalLength].cumulative_revenue_cluely
                          ELSE Series[i - 1].cumulative_amount_cluely
            IN /\ Series[i].cumulative_amount_interview_coder
                      = prevIc + Series[i].amount_interview_coder
               /\ Series[i].cumulative_amount_cluely
                      = prevCl + Series[i].amount_cluely

C1_Witness ==
    /\ TwoRowsAppended
    /\ \A i \in AppendedRows :
          Series[i].amount_interview_coder > 0 /\ Series[i].amount_cluely > 0

\* C2 as claimed: every appended row has total_daily = amount_A + amount_B and
\* total_cumulative = cumulative_A + cumulative_B, whatever the CSV file holds.
C2_TotalsAreSums ==
    Succeeded =>
        \A i \in AppendedRows :
            /\ Series[i].total_daily_revenue
                   = Series[i].amount_interview_coder + Series[i].amount_cluely
            /\ Series[i].total_cumulative_revenue
                   = Series[i].cumulative_amount_interview_coder
                     + Series[i].cumulative_amount_cluely

\* C2 amended: every appended row has total_daily = amount_A + amount_B and
\* total_cumulative = the preceding row's total_cumulative + total_daily, the
\* first appended row continuing the last CSV record's total (0 without one).
C2_TotalChain ==
    Succeeded =>
        \A i \in AppendedRows :
            LET before == IF i = HistoricalLength + 1
                          THEN IF HistoricalLength = 0 THEN 0
                               ELSE records[HistoricalLength].total_cumulative_revenue
                          ELSE Series[i - 1].total_cumulative_revenue
            IN /\ Series[i].total_daily_revenue
                      = Series[i].amount_interview_coder + Series[i].amount_cluely
               /\ Series[i].total_cumulative_revenue
                      = before + Series[i].total_daily_revenue

C2_Witness ==
    /\ TwoRowsAppended
    /\ records[HistoricalLength].total_cumulative_revenue
          # records[HistoricalLength].cumulative_revenue_interview_coder
            + records[HistoricalLength].cumulative_revenue_cluely

\* C3 as claimed: the dates of the returned series are strictly increasing.
C3_DatesStrictlyIncreasing ==
    Succeeded =>
        \A i, j \in DOMAIN Series : i < j => Series[i].date < Series[j].date

\* C4 as claimed: a fetched daily entry dated on or before the last historical
\* date is not among the entries handed to the merge.
C4_BoundaryExcluded ==
    (Succeeded /\ HistoricalLength > 0) =>
        /\ \A k \in DOMAIN fetched.interview_coder :
              fetched.interview_coder[k].date <= LastHistoricalDate
                  => fetched.interview_coder[k].date \notin Dates(interviewCoderRevenue)
        /\ \A k \in DOMAIN fetched.cluely :
              fetched.cluely[k].date <= LastHistoricalDate
                  => fetched.cluely[k].date \notin Dates(cluelyRevenue)

\* C5: the CSV records are the prefix of the returned series, in order and
\* field by field.
C5_HistoricalPrefix ==
    Succeeded =>
        /\ Len(Series) >= HistoricalLength
        /\ \A i \in 1..HistoricalLength :
              /\ Series[i].date = records[i].date
              /\ Series[i].amount_interview_coder = records[i].daily_revenue_interview_coder
              /\ Series[i].cumulative_amount_interview_coder
                     = records[i].cumulative_revenue_interview_coder
              /\ Series[i].amount_cluely = records[i].daily_revenue_cluely
              /\ Series[i].cumulative_amount_cluely = records[i].cumulative_revenue_cluely
              /\ Series[i].total_daily_revenue = records[i].total_daily_revenue
              /\ Series[i].total_cumulative_revenue = records[i].total_cumulative_revenue

C5_Witness ==
    /\ Succeeded
    /\ HistoricalLength >= 2
    /\ Len(Series) > HistoricalLength

\* The series the handler builds from a ledger and the two fetched arrays.
SeriesOf(historical, icFetched, clFetched) ==
    CombinedData(historical,
                 RecentData(historical,
                            FilterExisting(icFetched, historical),
                            FilterExisting(clFetched, historical)))

Aggregated == pc = "aggregated"
ZeroDecimal(currency) == currency \in {"jpy", "krw"}

\* C7 as claimed: a positive charge is booked on the Pacific day of its
\* available_on frameTime.
C7_BookedOnAvailability ==
    (Aggregated /\ Len(transactions) = 1) =>
        LET transaction == transactions[1]
        IN (transaction.reporting_category = "charge" /\ transaction.amount > 0)
               => Dates(dailyRevenue) = {convertToPacificTime(transaction.available_on)}

\* The sign policy of the accounting categories.
PolicyIncludes(transaction) ==
    \/ /\ transaction.reporting_category \in {"charge", "dispute_reversal", "refund_failure"}
       /\ transaction.amount > 0
    \/ /\ transaction.reporting_category \in {"refund", "dispute"}
       /\ transaction.amount < 0

\* C8 as claimed: a transaction contributes its signed amount exactly when its
\* sign is the one its category expects, and nothing otherwise.
C8_SignPolicy ==
    (Aggregated /\ Len(transactions) = 1) =>
        LET transaction == transactions[1]
        IN IF PolicyIncludes(transaction)
           THEN /\ Len(dailyRevenue) = 1
                /\ dailyRevenue[1].amount * (IF ZeroDecimal(transaction.currency) THEN 1 ELSE 100)
                       = transaction.amount * 100
           ELSE dailyRevenue = <<>>

\* C9: what the included transactions add up to is the raw amount of each
\* taken whole for a zero-decimal currency and divided by 100 for any other.
C9_CurrencyConversion ==
    Aggregated =>
        SumSeq([i \in DOMAIN dailyRevenue |-> dailyRevenue[i].amount])
            = SumSeq([i \in DOMAIN transactions |->
                         IF IsIncluded(transactions[i])
                         THEN IF ZeroDecimal(transactions[i].currency)
                              THEN transactions[i].amount * 100
                              ELSE transactions[i].amount
                         ELSE 0])

C9_Witness ==
    /\ Aggregated
    /\ Len(transactions) = 1
    /\ transactions[1].currency = "jpy"
    /\ transactions[1].amount = 1500
    /\ Len(dailyRevenue) = 1
    /\ dailyRevenue[1].amount = 150000

DayOf(transaction) == convertToPacificTime(RevenueTimestamp(transaction))
IncludedOn(day) ==
    {i \in DOMAIN transactions : IsIncluded(transactions[i]) /\ DayOf(transactions[i]) = day}

RECURSIVE SumOver(_)
SumOver(indices) ==
    IF indices = {} THEN 0
    ELSE LET i == CHOOSE x \in indices : TRUE
         IN ConvertAmount(transactions[i]) + SumOver(indices \ {i})

Combined == pc = "done" /\ recentDataStartTimestamp # 0
TodayDateString == convertToPacificTime(now)
TodayRows == {i \in DOMAIN Series : Series[i].date = TodayDateString}

\* The snapshot and the grand totals are those of row i of the series.
SnapshotIsRow(i) ==
    /\ response.today_revenue.date = Series[i].date
    /\ response.today_revenue.interview_coder = Series[i].amount_interview_coder
    /\ response.today_revenue.cluely = Series[i].amount_cluely
    /\ response.today_revenue.total = Series[i].total_daily_revenue
    /\ response.total_revenue.interview_coder = Series[i].cumulative_amount_interview_coder
    /\ response.total_revenue.cluely = Series[i].cumulative_amount_cluely
    /\ response.total_revenue.total = Series[i].total_cumulative_revenue

\* C11: for a non-empty series, the today snapshot is the row dated today
\* (Pacific) with is_today = true when there is one, and otherwise the last
\* row with is_today = false.
C11_TodaySnapshot ==
    (Succeeded /\ Len(Series) > 0) =>
        IF TodayRows # {}
        THEN /\ response.today_revenue.is_today = TRUE
             /\ response.today_revenue.date = TodayDateString
             /\ \E i \in TodayRows : SnapshotIsRow(i)
        ELSE /\ response.today_revenue.is_today = FALSE
             /\ SnapshotIsRow(Len(Series))

\* Today's row exists and is not the last one.
C11_Witness ==
    /\ Succeeded
    /\ TodayRows # {}
    /\ Len(Series) \notin TodayRows
    /\ Series[Len(Series)].cumulative_amount_interview_coder
           # response.total_revenue.interview_coder

\* C12: with no historical row and no new row the request answers 200 with
\* an empty series and a snapshot and grand totals that are all zero.
C12_EmptySeries ==
    (Combined /\ historicalData = <<>>
              /\ interviewCoderRevenue = <<>> /\ cluelyRevenue = <<>>) =>
        /\ response.status = 200
        /\ response.revenue_data = <<>>
        /\ \A k \in {"interview_coder", "cluely", "total"} :
              /\ response.today_revenue[k] = 0
              /\ response.total_revenue[k] = 0

C12_Witness ==
    /\ Combined
    /\ historicalData = <<>>
    /\ interviewCoderRevenue = <<>> /\ cluelyRevenue = <<>>
    /\ response.status = 200

\* The fields of a row, and the filtered revenue, by account.
AmountOf(row, account) ==
    IF account = "interview_coder" THEN row.amount_interview_coder ELSE row.amount_cluely
CumulativeOf(row, account) ==
    IF account = "interview_coder"
    THEN row.cumulative_amount_interview_coder
    ELSE row.cumulative_amount_cluely
RecordCumulativeOf(record, account) ==
    IF account = "interview_coder"
    THEN record.cumulative_revenue_interview_coder
    ELSE record.cumulative_revenue_cluely
RevenueOf(account) ==
    IF account = "interview_coder" THEN interviewCoderRevenue ELSE cluelyRevenue

\* The fetch of account a returned entries and the fetch of account b threw or
\* returned none.
OneAccountMissing(a, b) ==
    /\ Combined
    /\ a # b
    /\ a \notin fetchFailed /\ fetched[a] # <<>>
    /\ b \in fetchFailed \/ fetched[b] = <<>>

\* C13: when one account's fetch throws or returns nothing and the other's
\* succeeds, the request answers 200 with every historical row and, for each
\* new day of the succeeding account, a row with that account's amount, 0 for
\* the other, total_daily equal to that amount and the other account's
\* cumulative carried forward.
C13_PartialFailure ==
    \A a, b \in Accounts :
        OneAccountMissing(a, b) =>
            /\ response.status = 200
            /\ Len(Series) >= HistoricalLength
            /\ \A i \in 1..HistoricalLength : Series[i] = HistoricalEntry(records[i])
            /\ {Series[i].date : i \in AppendedRows} = Dates(RevenueOf(a))
            /\ Len(Series) - HistoricalLength = Len(RevenueOf(a))
            /\ \A i \in AppendedRows :
                  /\ \E k \in DOMAIN RevenueOf(a) :
                        /\ RevenueOf(a)[k].date = Series[i].date
                        /\ RevenueOf(a)[k].amount = AmountOf(Series[i], a)
                  /\ AmountOf(Series[i], b) = 0
                  /\ Series[i].total_daily_revenue = AmountOf(Series[i], a)
                  /\ CumulativeOf(Series[i], b)
                        = IF HistoricalLength = 0 THEN 0
                          ELSE RecordCumulativeOf(records[HistoricalLength], b)

\* The second fetch threw after the first returned new days, past a ledger.
C13_Witness ==
    /\ OneAccountMissing("interview_coder", "cluely")
    /\ "cluely" \in fetchFailed
    /\ HistoricalLength > 0
    /\ Len(Series) >= HistoricalLength + 2

\* C14: when the CSV file cannot be read or parsed, no fetch is started and
\* the request answers 500 with an error and neither series nor totals.
C14_LedgerUnreadable ==
    ~csvReadable =>
        /\ pc \in {"start", "done"}
        /\ \A a \in Accounts : fetched[a] = <<>>
        /\ fetchFailed = {}
        /\ pc = "done" =>
              /\ response.status = 500
              /\ DOMAIN response = {"status", "error"}

C14_Witness ==
    /\ ~csvReadable
    /\ pc = "done"
    /\ response = ErrorResponse("Failed to read historical data")

\* C19 as claimed: the start of the fetched window is dated, in the reporting
\* timezone, after the last historical date, so that nothing dated on or
\* before that date is asked for.
C19_WindowStartsAfterLedger ==
    (recentDataStartTimestamp # 0 /\ HistoricalLength > 0) =>
        convertToPacificTime(recentDataStartTimestamp) > LastHistoricalDate

\* C20: the rows after the historical prefix are one row per day of the union
\* of the two filtered revenues, in ascending order of date, with amount 0
\* for an account that has no entry on the day.
C20_UnionOfDays ==
    (Combined /\ response.status = 200) =>
        /\ [i \in 1..(Len(Series) - HistoricalLength) |-> Series[HistoricalLength + i].date]
              = SortDates(Dates(interviewCoderRevenue) \cup Dates(cluelyRevenue))
        /\ \A i \in AppendedRows : \A a \in Accounts :
              /\ Series[i].date \notin Dates(RevenueOf(a)) => AmountOf(Series[i], a) = 0
              /\ \A k \in DOMAIN RevenueOf(a) :
                    RevenueOf(a)[k].date = Series[i].date
                        => AmountOf(Series[i], a) = RevenueOf(a)[k].amount

\* Each account has a new day the other has not.
C20_Witness ==
    /\ Combined
    /\ response.status = 200
    /\ Dates(interviewCoderRevenue) \ Dates(cluelyRevenue) # {}
    /\ Dates(cluelyRevenue) \ Dates(interviewCoderRevenue) # {}

\* ===================================================================
\* Claims about malformed transactions.

\* A lone transaction that passes the test of the loop.
LoneIncluded ==
    /\ Aggregated
    /\ Len(transactions) = 1
    /\ IsIncluded(transactions[1])

\* C15 as claimed: a transaction whose frameTime is invalid is booked on the
\* day the clock maps to in the reporting timezone.
C15_FallbackIsPacificToday ==
    (LoneIncluded /\ transactions[1].created = NaN) =>
        Dates(dailyRevenue) = {convertToPacificTime(now)}

\* C16 as claimed: a transaction without a frameTime, or with a malformed
\* currency code, adds to no day's total.
C16_MalformedExcluded ==
    (LoneIncluded /\ transactions[1] \in MalformedTransactions) =>
        dailyRevenue = <<>>

\* ===================================================================
\* Claims about the paginated fetch (specification SpecFetch).

\* The data of the pages that resolved, in the order of the requests.
RECURSIVE DataOf(_)
DataOf(log) ==
    IF log = <<>> THEN <<>>
    ELSE (IF Head(log).ok THEN Head(log).data ELSE <<>>) \o DataOf(Tail(log))

FetchEnded == pc \in {"aggregated", "threw"}
LastRequestFailed == pageLog # <<>> /\ ~pageLog[Len(pageLog)].ok

\* C17: when a page request fails, it is the last request of the fetch; with
\* transactions collected the fetch returns those of the pages before it, in
\* order, and the aggregation is that of these records; with none collected
\* the fetch throws and yields no daily revenue.
C17_PartialFetch ==
    /\ \A i \in DOMAIN pageLog : ~pageLog[i].ok => (i = Len(pageLog) /\ FetchEnded)
    /\ (FetchEnded /\ LastRequestFailed) =>
          LET collected == DataOf(SubSeq(pageLog, 1, Len(pageLog) - 1))
          IN IF collected # <<>>
             THEN /\ pc = "aggregated"
                  /\ transactions = collected
                  /\ dailyRevenue = getStripeRevenue(collected)
             ELSE /\ pc = "threw"
                  /\ dailyRevenue = <<>>

\* The third request fails after two pages brought transactions of two days.
C17_Witness ==
    /\ pc = "aggregated"
    /\ LastRequestFailed
    /\ Len(pageLog) = 3
    /\ Len(transactions) >= 2
    /\ Len(dailyRevenue) = 2

\* ===================================================================
\* Claims about the dashboard (specification SpecDash).

\* C18: the revenue data held is that of the last revenue response stored,
\* whatever fetches failed since; the error branch is rendered only while no
\* revenue data was ever stored; and once the first load is over, stored data
\* is what is displayed, with its own total.
C18_LoadedDataKept ==
    /\ revenueData = lastLoaded
    /\ View = "error" => lastLoaded = Null
    /\ (lastLoaded # Null /\ ~initialLoading) =>
          /\ View = "data"
          /\ getDisplayValue = lastLoaded.total_revenue.total

\* Data was stored, and a later fetch got a status that is not OK.
C18_Witness ==
    /\ lastLoaded # Null
    /\ ~initialLoading
    /\ error = "Failed to fetch revenue data: Revenue API error! status: 500"
    /\ inFlight = [initial |-> 0, refresh |-> 0]

\* ===================================================================
\* Claims about the grand totals (specification Spec).

\* C21 as claimed: in a successful response with a non-empty series the grand
\* totals are the cumulative values of the last row of the series.
C21_TotalsAreLastRow ==
    (Succeeded /\ Len(Series) > 0) =>
        LET lastEntry == Series[Len(Series)]
        IN /\ response.total_revenue.interview_coder
                 = lastEntry.cumulative_amount_interview_coder
           /\ response.total_revenue.cluely = lastEntry.cumulative_amount_cluely
           /\ response.total_revenue.total = lastEntry.total_cumulative_revenue

\* ===================================================================
\* Claims about the page loop (specifications SpecFetch, SpecFetchFair).

\* C22: whatever the pages bring (any has_more, any size, any failure), the
\* fetch makes at most maxPages page requests, and it ends: it returns (and
\* the aggregation is done) or it throws.
C22_FetchTerminates ==
    /\ [](Len(pageLog) <= maxPages /\ pageCount = Len(pageLog))
    /\ <>FetchEnded

\* The fetch returned because of the page limit, with more to fetch.
C22_Witness ==
    /\ pc = "aggregated"
    /\ hasMore
    /\ Len(pageLog) = maxPages
    /\ \E i \in DOMAIN pageLog : pageLog[i].data = <<>>

\* C23 as claimed: every page request after the first carries the id of the
\* last transaction of the page before it, and no two page requests of a
\* fetch are the same.
C23_CursorAdvances ==
    /\ \A i \in 2..Len(pageLog) :
          LET before == pageLog[i - 1].data
          IN /\ before # <<>>
             /\ pageLog[i].request.starting_after = before[Len(before)].id
    /\ \A i, j \in DOMAIN pageLog : i # j => pageLog[i].request # pageLog[j].request

\* ===================================================================
\* Claims about the dashboard's fetches (specifications SpecDash, SpecDashFair).

\* The ways the geographical request fails: a status that is not OK, a body
\* with an error field, a rejection.
GeographicalFailures == {"http_error", "error_field", "rejects"}

\* C24 as claimed: when the revenue request of a fetch succeeded and the
\* geographical one failed, the revenue body is stored and error is null.
C24_GeographicalFailureHarmless ==
    (/\ lastOutcome # Null
     /\ lastOutcome.revenue.kind = "ok"
     /\ lastOutcome.geographical \in GeographicalFailures) =>
        /\ revenueData = lastOutcome.revenue.body
        /\ error = NoError

\* A call of fetchRevenueData(false) is made in this step.
RefreshStarts == pc = "mounted" /\ fetchCount' = fetchCount + 1

\* C25 as claimed: a refresh that starts while revenue data is loaded sets the
\* three previous totals to the totals of that data.
C25_PrevTotalsFollowLoaded ==
    [][(RefreshStarts /\ revenueData # Null) =>
          /\ prevTotal' = revenueData.total_revenue.total
          /\ prevCluelyTotal' = revenueData.total_revenue.cluely
          /\ prevInterviewCoderTotal' = revenueData.total_revenue.interview_coder]_vars

\* C26 as claimed: refreshing is true whenever a fetch that is not the initial
\* one is in flight.
C26_RefreshingWhileInFlight == inFlight.refresh > 0 => refreshing

\* A call of fetchRevenueData settles in this step; the initial one.
FetchSettles == pc = "mounted" /\ inFlight' # inFlight /\ fetchCount' = fetchCount
InitialFetchSettles == FetchSettles /\ inFlight'.initial < inFlight.initial

\* C27: a fetch that settles, however it ends, leaves refreshing = false and,
\* when it is the initial one, initialLoading = false; and when every request
\* settles, initialLoading is false from some point on.
C27_LoadingEnds ==
    /\ [][FetchSettles => (~refreshing' /\ (InitialFetchSettles => ~initialLoading'))]_vars
    /\ <>[](~initialLoading)

\* The initial fetch was rejected, and the loading state is over.
C27_Witness ==
    /\ ~initialLoading
    /\ ~refreshing
    /\ fetchCount = 1
    /\ inFlight.initial = 0
    /\ lastOutcome # Null
    /\ lastOutcome.revenue.kind = "rejects"

\* ===================================================================
\* Claims about the geographical route (specification SpecGeo).

\* The charges fetched for an account hold a location the map can place.
HasUsableLocation(account) ==
    ExtractLocations(chargeFetch[account].allCharges, <<>>) # <<>>

\* The country codes of the charges fetched for an account.
FetchedCountries(account) ==
    {chargeFetch[account].allCharges[i].country : i \in DOMAIN chargeFetch[account].allCharges}

\* C28: with both API keys set the geographical GET answers 200 with a
\* non-empty list of points per account, whatever failed: the fixed demo list
\* when processing threw, random demo points when no charge had a usable
\* location, and otherwise points of the countries of the charges fetched
\* before a page failed; without the keys it answers 500.
C28_GeographicalNeverFails ==
    pc = "done" =>
        IF keysSet
        THEN /\ response.status = 200
             /\ response.geographical_data.combined # <<>>
             /\ \A account \in Accounts :
                    LET list == response.geographical_data[account]
                    IN /\ list # <<>>
                       /\ chargeFetch[account].threw => list = createDemoGeographicalData
                       /\ ~chargeFetch[account].threw /\ ~HasUsableLocation(account) =>
                              \E demo \in RandomDemoLocations :
                                  list = AllPoints(demo, MaxRevenue(demo))
                       /\ ~chargeFetch[account].threw /\ HasUsableLocation(account) =>
                              \A i \in DOMAIN list :
                                  /\ ~list[i].country.demo
                                  /\ list[i].country.code \in FetchedCountries(account)
        ELSE response = ErrorResponse("Missing Stripe API keys")

\* The answer after a page of one account failed past a charge without a
\* usable location, and the processing of the other account threw.
C28_Witness ==
    /\ pc = "done"
    /\ keysSet
    /\ response.status = 200
    /\ \E account \in Accounts :
          /\ chargeFetch[account].pageFailed
          /\ chargeFetch[account].allCharges # <<>>
          /\ ~chargeFetch[account].threw
          /\ ~HasUsableLocation(account)
    /\ \E account \in Accounts : chargeFetch[account].threw

\* The keys of a list of points, and the total of a field over the points of
\* a list that have a key.
PointKeys(list) == {list[i].country : i \in DOMAIN list}
RECURSIVE KeyTotal(_, _, _)
KeyTotal(list, key, field) ==
    IF list = <<>> THEN 0
    ELSE (IF Head(list).country = key THEN Head(list)[field] ELSE 0)
             + KeyTotal(Tail(list), key, field)

\* C29: the combined list has one entry per key of either account's list,
\* with the sums of revenue and transactionCount over both lists, and the
\* per-account lists of the response are the lists getGeographicalRevenue
\* returned.
C29_CombinedIsSum ==
    pc = "done" /\ keysSet =>
        LET data == response.geographical_data
            both == data.interview_coder \o data.cluely
        IN /\ PointKeys(data.combined) = PointKeys(both)
           /\ \A i, j \in DOMAIN data.combined :
                  data.combined[i].country = data.combined[j].country => i = j
           /\ \A i \in DOMAIN data.combined :
                  /\ data.combined[i].revenue =
                         KeyTotal(both, data.combined[i].country, "revenue")
                  /\ data.combined[i].transactionCount =
                         KeyTotal(both, data.combined[i].country, "transactionCount")
           /\ data.interview_coder = geoData.interview_coder
           /\ data.cluely = geoData.cluely

\* A response where one key is in both accounts' lists and another in one only.
C29_Witness ==
    /\ pc = "done"
    /\ keysSet
    /\ \E key \in PointKeys(response.geographical_data.interview_coder) :
          /\ ~key.demo
          /\ key \in PointKeys(response.geographical_data.cluely)
    /\ PointKeys(response.geographical_data.interview_coder)
          # PointKeys(response.geographical_data.cluely)

\* ===================================================================
\* Claims about CountUp (specification SpecCount).

\* C30 as claimed (its last part): the first frame of every animation sees
\* zero elapsed time, and so displays prevValue.
C30_AnimationRestarts ==
    pc = "counting" /\ framesRun = 1 =>
        elapsedSeen = 0 /\ displayValue = props.prevValue

====
